---- MODULE Spec2Model ----
(***************************************************************************)
(* fetchuy: a fetch wrapper (fetcho), a response cache (useCache), a retry *)
(* wrapper (retryFetch) and a React hook (useFetch).  Each component is a  *)
(* state machine of its own; the four specifications below share one Init. *)
(* JavaScript values are modelled as strings: "undefined" and "null" are   *)
(* the values of those names, "0" is the number zero.                      *)
(***************************************************************************)
EXTENDS Integers, Sequences, FiniteSets, TLC

VARIABLES
    cache,      \* cache.js: the module-scope object, own properties only
    cCalls,     \* the useCache calls made so far, in call order: key, producer (prod),
                \* the calls settled before it began (prior), how often it invoked
                \* its producer (inv), where it stands (pc), what it settled with (out)
    rPc,        \* retryFetch: where the one call stands
    rRetries,   \* retryFetch: the retries argument
    rDelay,     \* retryFetch: the delay argument
    rI,         \* retryFetch: the loop index i
    rLastError, \* retryFetch: lastError
    rAttempts,  \* retryFetch: the outcome of each fetchFn invocation, in order
    rInFlight,  \* retryFetch: fetchFn invocations not yet settled
    rTimers,    \* retryFetch: the duration of every setTimeout armed, in order
    rOut,       \* retryFetch: what the call settled with
    fPc,        \* fetcho: where the one call stands
    fOptions,   \* fetcho: the options argument
    fFinal,     \* fetcho: finalOptions, as passed to fetch
    fResp,      \* fetcho: what the transport answered
    fJsonRead,  \* fetcho: whether response.json() was called
    fSink,      \* fetcho: the errors given to console.error, in order
    fOut,       \* fetcho: what the call settled with
    hPhase,     \* useFetch: "init", "mounted" or "detached"
    hFresh,     \* useFetch: the options argument is a new object on every render
    hData,      \* useFetch: the data state
    hError,     \* useFetch: the error state
    hLoading,   \* useFetch: the loading state
    hCalls,     \* useFetch: the fetcho calls issued by the effect, in order
    hDirty      \* useFetch: a setter changed the state and a re-render is due

cacheVars == <<cache, cCalls>>
retryVars == <<rPc, rRetries, rDelay, rI, rLastError, rAttempts, rInFlight, rTimers, rOut>>
fetchoVars == <<fPc, fOptions, fFinal, fResp, fJsonRead, fSink, fOut>>
hookVars == <<hPhase, hFresh, hData, hError, hLoading, hCalls, hDirty>>
vars == <<cacheVars, retryVars, fetchoVars, hookVars>>

Undefined == "undefined"
Null == "null"

(***************************************************************************)
(* JavaScript truthiness, as the `if (cache[key])` test applies it.        *)
(***************************************************************************)
Truthy(v) == v \notin {"undefined", "null", "0", "", "false", "NaN"}

\* ------------------------------------------------------------------ cache

MaxCacheCalls == 3

\* keys the callers use; "constructor" is a name every plain object inherits
Keys == {"k1", "k2", "constructor"}
\* what producers resolve with: two objects and the number zero
Values == {"a", "b", "0"}
CacheErrors == {"e1"}
NoEntry == "<no entry>"

\* a producer: resolves with val, rejects with val, or throws val when invoked
Producers ==
    [kind : {"resolve"}, val : Values] \cup [kind : {"reject", "throw"}, val : CacheErrors]

\* const cache = {}
EmptyCache == [k \in Keys |-> NoEntry]

\* what a plain object inherits from Object.prototype under name k
Inherited(k) == IF k = "constructor" THEN "function Object" ELSE Undefined

\* cache[key]: the own property if there is one, else the inherited one
Lookup(c, k) == IF c[k] # NoEntry THEN c[k] ELSE Inherited(k)

\* if (cache[key])
\* (variant: a call for a key that another call is still fetching counts as a hit)
CacheHitOrInFlight(c, k) ==
    Truthy(Lookup(c, k)) \/ \E e \in 1..Len(cCalls) : cCalls[e].key = k /\ cCalls[e].pc = "pending"
CacheHit(c, k) == Truthy(Lookup(c, k))

\* cache[key] = data
\* (variant: the value stored under another key)
CacheStoreOther(c, k, data) == [c EXCEPT ![CHOOSE j \in Keys : j # k] = data]
CacheStore(c, k, data) == [c EXCEPT ![k] = data]

\* the cache after a producer's promise settles: only the .then callback writes
\* (variant: a callback that stores on rejection too)
CacheAfterSettleAlways(c, k, p) == CacheStore(c, k, p.val)
CacheAfterSettle(c, k, p) == IF p.kind = "resolve" THEN CacheStore(c, k, p.val) ELSE c

\* what the promise returned by useCache settles with once the producer's has
SettledCall(call) ==
    [call EXCEPT !.pc = IF call.prod.kind = "resolve" THEN "resolved" ELSE "rejected",
                 !.out = call.prod.val]

\* the calls that have settled: what a call started now comes after
SettledCalls == { c \in 1..Len(cCalls) : cCalls[c].pc # "pending" }

\* useCache(key, fetchFn) up to its return: a hit returns Promise.resolve(cache[key]),
\* a miss invokes fetchFn, which may throw before it returns its promise
UseCache(k, p) ==
    /\ Len(cCalls) < MaxCacheCalls
    /\ LET call == [key |-> k, prod |-> p, prior |-> SettledCalls] IN
       cCalls' = Append(cCalls,
         IF CacheHit(cache, k)
         THEN call @@ [inv |-> 0, pc |-> "resolved", out |-> Lookup(cache, k)]
         ELSE IF p.kind = "throw"
              THEN call @@ [inv |-> 1, pc |-> "thrown", out |-> p.val]
              ELSE call @@ [inv |-> 1, pc |-> "pending", out |-> Undefined])
    /\ UNCHANGED <<cache, retryVars, fetchoVars, hookVars>>

\* the producer's promise settles: the .then callback, or the rejection passing through
UseCacheSettle(c) ==
    /\ c \in 1..Len(cCalls)
    /\ cCalls[c].pc = "pending"
    /\ cache' = CacheAfterSettle(cache, cCalls[c].key, cCalls[c].prod)
    /\ cCalls' = [cCalls EXCEPT ![c] = SettledCall(cCalls[c])]
    /\ UNCHANGED <<retryVars, fetchoVars, hookVars>>

NextCache ==
    \/ \E k \in Keys, p \in Producers : UseCache(k, p)
    \/ \E c \in 1..MaxCacheCalls : UseCacheSettle(c)

\* ------------------------------------------------------------- retryFetch

MaxRetries == 3

\* the retries argument: negative, zero and the counts up to MaxRetries
RetriesArgs == -1..MaxRetries
\* the delay argument, in milliseconds
DelayArgs == {0, 1000}
\* what one invocation of fetchFn settles with
RetryValues == {"a", "b"}
RetryErrors == {"e1", "e2"}
AttemptOutcomes == [ok : {TRUE}, val : RetryValues] \cup [ok : {FALSE}, val : RetryErrors]

\* for (...; i < retries; ...)
\* (variant: i <= retries)
LoopTestInclusive(i, retries) == i <= retries
LoopTest(i, retries) == i < retries

\* if (i < retries - 1)
\* (variant: no test, a delay after every failure)
DelayNeededAlways(i, retries) == TRUE
\* (variant: the test off by one, i < retries - 2)
DelayNeededEarlyStop(i, retries) == i < retries - 2
DelayNeeded(i, retries) == i < retries - 1

\* lastError = error
\* (variant: lastError ??= error, which keeps the first failure)
CaughtKeepFirst(last, error) == IF last = Undefined THEN error ELSE last
Caught(last, error) == error

\* the top of the loop with index i, lastError last and inflight invocations
\* unsettled: invoke fetchFn, or leave the loop and throw lastError
RetryLoop(i, last, inflight) ==
    /\ rI' = i
    /\ IF LoopTest(i, rRetries')
       THEN /\ rInFlight' = inflight + 1
            /\ rPc' = "await"
            /\ rOut' = rOut
       ELSE /\ rInFlight' = inflight
            /\ rPc' = "rejected"
            /\ rOut' = last

\* retryFetch(fetchFn, retries, delay) up to its first await
RetryFetch(n, d) ==
    /\ rPc = "idle"
    /\ rRetries' = n
    /\ rDelay' = d
    /\ rLastError' = Undefined
    /\ RetryLoop(0, Undefined, 0)
    /\ UNCHANGED <<rAttempts, rTimers, cacheVars, fetchoVars, hookVars>>

\* the awaited fetchFn() settles: return its value, or catch its error and
\* either arm the timer or go round the loop
RetryAttemptSettles(o) ==
    /\ rPc = "await"
    /\ rAttempts' = Append(rAttempts, o)
    /\ rRetries' = rRetries
    /\ IF o.ok
       THEN /\ rPc' = "resolved"
            /\ rOut' = o.val
            /\ rInFlight' = rInFlight - 1
            /\ UNCHANGED <<rI, rLastError, rTimers>>
       ELSE /\ rLastError' = Caught(rLastError, o.val)
            /\ IF DelayNeeded(rI, rRetries)
               THEN /\ rTimers' = Append(rTimers, rDelay)
                    /\ rPc' = "delay"
                    /\ rInFlight' = rInFlight - 1
                    /\ UNCHANGED <<rI, rOut>>
               ELSE /\ rTimers' = rTimers
                    /\ RetryLoop(rI + 1, rLastError', rInFlight - 1)
    /\ UNCHANGED <<rDelay, cacheVars, fetchoVars, hookVars>>

\* the setTimeout fires: i++ and the top of the loop
RetryDelayElapsed ==
    /\ rPc = "delay"
    /\ rRetries' = rRetries
    /\ RetryLoop(rI + 1, rLastError, rInFlight)
    /\ UNCHANGED <<rDelay, rLastError, rAttempts, rTimers, cacheVars, fetchoVars, hookVars>>

NextRetry ==
    \/ \E n \in RetriesArgs, d \in DelayArgs : RetryFetch(n, d)
    \/ \E o \in AttemptOutcomes : RetryAttemptSettles(o)
    \/ RetryDelayElapsed

\* ----------------------------------------------------------------- fetcho

\* the top-level option names of the README's table
OptKeys == {"method", "headers", "body", "credentials"}
HeaderNames == {"Content-Type", "Authorization"}
Absent == "<absent>"

\* a headers object: each header name's value, or Absent
HeaderObjects == [HeaderNames -> {Absent, "application/json", "x"}]
NoHeaders == [h \in HeaderNames |-> Absent]

\* an options object: the names it has as own properties and their values (a name
\* it has not reads as undefined; a headers object it has not as NoHeaders)
OptionObjects ==
    { o \in [has : SUBSET OptKeys, method : {Undefined, "GET", "POST"},
             headers : HeaderObjects, body : {Undefined, "{}"},
             credentials : {Undefined, "include"}] :
        /\ "method" \notin o.has => o.method = Undefined
        /\ "headers" \notin o.has => o.headers = NoHeaders
        /\ "body" \notin o.has => o.body = Undefined
        /\ "credentials" \notin o.has => o.credentials = Undefined }

\* the options callers pass: any subset of the names, with a value for each
CallerOptions ==
    { o \in OptionObjects :
        /\ "method" \in o.has => o.method = "POST"
        /\ "body" \in o.has => o.body = "{}"
        /\ "credentials" \in o.has => o.credentials = "include"
        /\ o.headers["Content-Type"] # "x"
        /\ o.headers["Authorization"] # "application/json" }

\* const defaultOptions = { method: 'GET', headers: { 'Content-Type': 'application/json' } }
defaultOptions ==
    [has |-> {"method", "headers"}, method |-> "GET",
     headers |-> [NoHeaders EXCEPT !["Content-Type"] = "application/json"],
     body |-> Undefined, credentials |-> Undefined]

\* { ...a, ...b }: b's own properties over a's
\* (variant: headers merged per header instead of replaced)
SpreadDeepHeaders(a, b) ==
    [has |-> a.has \cup b.has,
     method |-> IF "method" \in b.has THEN b.method ELSE a.method,
     headers |-> [h \in HeaderNames |->
                    IF "headers" \in b.has /\ b.headers[h] # Absent
                    THEN b.headers[h] ELSE a.headers[h]],
     body |-> IF "body" \in b.has THEN b.body ELSE a.body,
     credentials |-> IF "credentials" \in b.has THEN b.credentials ELSE a.credentials]
Spread(a, b) ==
    [has |-> a.has \cup b.has,
     method |-> IF "method" \in b.has THEN b.method ELSE a.method,
     headers |-> IF "headers" \in b.has THEN b.headers ELSE a.headers,
     body |-> IF "body" \in b.has THEN b.body ELSE a.body,
     credentials |-> IF "credentials" \in b.has THEN b.credentials ELSE a.credentials]

\* what fetch answers: a transport failure, or a response with its ok flag, its
\* status and a body that parses as JSON (to json) or does not
Statuses == {200, 404, 500}
Responses ==
    [kind : {"response"}, ok : BOOLEAN, status : Statuses, parses : BOOLEAN, json : {"a", "null"}]
TransportFailures == [kind : {"failure"}, error : {"Failed to fetch"}]
NoResponse == [kind |-> "none"]

\* a number in a template literal: its decimal digits
Digit == <<"0", "1", "2", "3", "4", "5", "6", "7", "8", "9">>
RECURSIVE NumberToString(_)
NumberToString(n) ==
    IF n < 10 THEN Digit[n + 1] ELSE NumberToString(n \div 10) \o Digit[(n % 10) + 1]

\* the message of new Error(`HTTP error! Status: ${response.status}`); an error is
\* modelled by its message
HttpError(r) == "HTTP error! Status: " \o NumberToString(r.status)

\* if (!response.ok)
\* (variant: only server errors refused)
ResponseRefusedByStatus(r) == r.status >= 500
ResponseRefused(r) == ~r.ok

\* the parse failure response.json() rejects with
ParseError == "Unexpected token"

\* (variant: the error re-raised without console.error)
FetchoCatchSilent(error) ==
    /\ fSink' = fSink
    /\ fPc' = "rejected"
    /\ fOut' = error

\* the catch block: console.error('Fetch error:', error); throw error
FetchoCatch(error) ==
    /\ fSink' = Append(fSink, error)
    /\ fPc' = "rejected"
    /\ fOut' = error

\* fetcho(url, options) up to the await of fetch
Fetcho(o) ==
    /\ fPc = "idle"
    /\ fOptions' = o
    /\ fFinal' = Spread(defaultOptions, o)
    /\ fPc' = "awaitFetch"
    /\ UNCHANGED <<fResp, fJsonRead, fSink, fOut, cacheVars, retryVars, hookVars>>

\* the transport settles: a failure is caught, a refused response thrown and
\* caught, and the body of any other response is read as JSON
FetchSettles(r) ==
    /\ fPc = "awaitFetch"
    /\ fResp' = r
    /\ IF r.kind = "failure"
       THEN FetchoCatch(r.error) /\ fJsonRead' = fJsonRead
       ELSE IF ResponseRefused(r)
            THEN FetchoCatch(HttpError(r)) /\ fJsonRead' = fJsonRead
            ELSE /\ fJsonRead' = TRUE
                 /\ fPc' = "awaitJson"
                 /\ UNCHANGED <<fSink, fOut>>
    /\ UNCHANGED <<fOptions, fFinal, cacheVars, retryVars, hookVars>>

\* response.json() settles: return the parsed body, or catch the parse failure
JsonSettles ==
    /\ fPc = "awaitJson"
    /\ IF fResp.parses
       THEN /\ fPc' = "resolved"
            /\ fOut' = fResp.json
            /\ fSink' = fSink
       ELSE FetchoCatch(ParseError)
    /\ UNCHANGED <<fOptions, fFinal, fResp, fJsonRead, cacheVars, retryVars, hookVars>>

NextFetcho ==
    \/ \E o \in CallerOptions : Fetcho(o)
    \/ \E r \in Responses \cup TransportFailures : FetchSettles(r)
    \/ JsonSettles

\* --------------------------------------------------------------- useFetch

MaxHookCalls == 3

\* what a fetcho call issued by the hook settles with: a result, or an error
\* with a message
HookOutcomes == [ok : {TRUE}, val : {"a", "b"}] \cup [ok : {FALSE}, val : {"m1", "m2"}]

\* useState(null), useState(null), useState(true)
InitialHookState == [data |-> Null, error |-> Null, loading |-> TRUE]

HookState == [data |-> hData, error |-> hError, loading |-> hLoading]

\* setLoading(true), the first statement of fetchData
HookStateAtIssue(s) == [s EXCEPT !.loading = TRUE]

\* the rest of fetchData once the awaited fetcho has settled with o:
\* setData(result) or setError(err.message), then setLoading(false)
\* (variant: setLoading(false) in the catch block instead of finally)
HookStateAtSettleNoFinally(s, o) ==
    IF o.ok THEN [s EXCEPT !.data = o.val]
            ELSE [s EXCEPT !.error = o.val, !.loading = FALSE]
HookStateAtSettle(s, o) ==
    IF o.ok THEN [s EXCEPT !.data = o.val, !.loading = FALSE]
            ELSE [s EXCEPT !.error = o.val, !.loading = FALSE]

\* the setters take effect: the state cells, and whether a re-render is due
\* (a setter that changes nothing schedules none, nor does one on a component
\* that is no longer attached)
HookWrite(s, attached) ==
    /\ hData' = s.data
    /\ hError' = s.error
    /\ hLoading' = s.loading
    /\ hDirty' = (hDirty \/ (attached /\ s # HookState))

\* the effect body: fetchData() up to its await
RunEffect ==
    /\ Len(hCalls) < MaxHookCalls
    /\ hCalls' = Append(hCalls, [st |-> "pending", val |-> Undefined])
    /\ HookWrite(HookStateAtIssue(HookState), TRUE)

\* the component attaches: the first render, then the effect
Attach(fresh) ==
    /\ hPhase = "init"
    /\ hPhase' = "mounted"
    /\ hFresh' = fresh
    /\ RunEffect
    /\ UNCHANGED <<cacheVars, retryVars, fetchoVars>>

\* the component is rendered with another url or another options object: the
\* dependency array [url, options] differs and the effect runs again
IdentityChange ==
    /\ hPhase = "mounted"
    /\ RunEffect
    /\ UNCHANGED <<hPhase, hFresh, cacheVars, retryVars, fetchoVars>>

\* the re-render a state change causes: with a new options object on every
\* render the dependency array differs and the effect runs again
Rerender ==
    /\ hPhase = "mounted"
    /\ hDirty
    /\ IF hFresh
       THEN /\ Len(hCalls) < MaxHookCalls
            /\ hCalls' = Append(hCalls, [st |-> "pending", val |-> Undefined])
            /\ hData' = hData
            /\ hError' = hError
            /\ hLoading' = HookStateAtIssue(HookState).loading
            /\ hDirty' = (hLoading' # hLoading)
       ELSE /\ hDirty' = FALSE
            /\ UNCHANGED <<hData, hError, hLoading, hCalls>>
    /\ UNCHANGED <<hPhase, hFresh, cacheVars, retryVars, fetchoVars>>

\* (variant: a generation check, only the most recently issued call writes)
HookCallSettlesLatestOnly(c, o) ==
    /\ c \in 1..Len(hCalls)
    /\ hCalls[c].st = "pending"
    /\ hCalls' = [hCalls EXCEPT ![c] = [st |-> IF o.ok THEN "ok" ELSE "fail", val |-> o.val]]
    /\ IF c = Len(hCalls)
       THEN HookWrite(HookStateAtSettle(HookState, o), hPhase = "mounted")
       ELSE UNCHANGED <<hData, hError, hLoading, hDirty>>
    /\ UNCHANGED <<hPhase, hFresh, cacheVars, retryVars, fetchoVars>>

\* call c settles with o: the rest of fetchData runs, attached or not (the effect
\* returns no cleanup function and fetchData checks nothing before its setters)
HookCallSettles(c, o) ==
    /\ c \in 1..Len(hCalls)
    /\ hCalls[c].st = "pending"
    /\ hCalls' = [hCalls EXCEPT ![c] = [st |-> IF o.ok THEN "ok" ELSE "fail", val |-> o.val]]
    /\ HookWrite(HookStateAtSettle(HookState, o), hPhase = "mounted")
    /\ UNCHANGED <<hPhase, hFresh, cacheVars, retryVars, fetchoVars>>

\* the component detaches: the effect registered no cleanup, nothing else runs
Detach ==
    /\ hPhase = "mounted"
    /\ hPhase' = "detached"
    /\ UNCHANGED <<hFresh, hData, hError, hLoading, hCalls, hDirty,
                   cacheVars, retryVars, fetchoVars>>

NextHook ==
    \/ \E fresh \in BOOLEAN : Attach(fresh)
    \/ IdentityChange
    \/ Rerender
    \/ \E c \in 1..MaxHookCalls, o \in HookOutcomes : HookCallSettles(c, o)
    \/ Detach

\* --------------------------------------------------------- specifications

Init ==
    /\ cache = EmptyCache
    /\ cCalls = <<>>
    /\ rPc = "idle"
    /\ rRetries = 0
    /\ rDelay = 0
    /\ rI = 0
    /\ rLastError = Undefined
    /\ rAttempts = <<>>
    /\ rInFlight = 0
    /\ rTimers = <<>>
    /\ rOut = Undefined
    /\ fPc = "idle"
    /\ fOptions = [has |-> {}, method |-> Undefined, headers |-> NoHeaders,
                   body |-> Undefined, credentials |-> Undefined]
    /\ fFinal = fOptions
    /\ fResp = NoResponse
    /\ fJsonRead = FALSE
    /\ fSink = <<>>
    /\ fOut = Undefined
    /\ hPhase = "init"
    /\ hFresh = FALSE
    /\ hData = InitialHookState.data
    /\ hError = InitialHookState.error
    /\ hLoading = InitialHookState.loading
    /\ hCalls = <<>>
    /\ hDirty = FALSE

SpecCache == Init /\ [][NextCache]_vars
SpecRetry == Init /\ [][NextRetry]_vars
SpecFetcho == Init /\ [][NextFetcho]_vars
SpecHook == Init /\ [][NextHook]_vars

\* retryFetch when every fetchFn invocation settles and every timer fires
SpecRetryFair ==
    /\ Init
    /\ [][NextRetry]_vars
    /\ WF_vars(\E o \in AttemptOutcomes : RetryAttemptSettles(o))
    /\ WF_vars(RetryDelayElapsed)

\* fetchData() is called without keeping its promise: once every call issued
\* has settled nothing refers to them any more
HookCallsDiscarded ==
    /\ hCalls # <<>>
    /\ \A c \in 1..Len(hCalls) : hCalls[c].st # "pending"
    /\ hCalls' = <<>>
    /\ UNCHANGED <<hPhase, hFresh, hData, hError, hLoading, hDirty,
                   cacheVars, retryVars, fetchoVars>>

\* a component that stays attached and keeps rendering useFetch(url) with the
\* same url and no options argument (options = {} is a new object per render)
NextHookOmitted ==
    \/ Attach(TRUE)
    \/ Rerender
    \/ \E c \in 1..MaxHookCalls, o \in HookOutcomes : HookCallSettles(c, o)
    \/ HookCallsDiscarded

\* ... whose calls all settle and whose due re-renders all happen
SpecHookOmitted ==
    /\ Init
    /\ [][NextHookOmitted]_vars
    /\ \A c \in 1..MaxHookCalls : WF_vars(\E o \in HookOutcomes : HookCallSettles(c, o))
    /\ WF_vars(Rerender)
    /\ WF_vars(HookCallsDiscarded)

\* ----------------------------------------------------------------- claims

\* call c is the first useCache call with its key
FirstCallForKey(c) == \A e \in 1..(c - 1) : cCalls[e].key # cCalls[c].key

\* every other call with c's key began after c had settled
LaterCallsOnly(c) ==
    \A d \in 1..Len(cCalls) :
        (d # c /\ cCalls[d].key = cCalls[c].key) => c \in cCalls[d].prior

\* C1: the first call for a key whose producer resolves with v invokes that
\* producer exactly once; when no other call for the key overlaps with it, v is
\* stored under the key once it has resolved, and every call for the key that
\* begins after that resolves with v and invokes no producer.
C1_FirstCallCachesLaterCallsHit ==
    \A c \in 1..Len(cCalls) :
        (FirstCallForKey(c) /\ cCalls[c].prod.kind = "resolve") =>
            /\ cCalls[c].inv = 1
            /\ LaterCallsOnly(c) =>
                 /\ cCalls[c].pc = "resolved" => cache[cCalls[c].key] = cCalls[c].prod.val
                 /\ \A d \in 1..Len(cCalls) :
                      (c \in cCalls[d].prior /\ cCalls[d].key = cCalls[c].key) =>
                          /\ cCalls[d].inv = 0
                          /\ cCalls[d].pc = "resolved"
                          /\ cCalls[d].out = cCalls[c].prod.val

\* the call the step begins, if it begins one
Begun == IF Len(cCalls') > Len(cCalls) THEN {Len(cCalls')} ELSE {}

\* C2: a call whose producer fails (rejects or throws) fails with the producer's
\* failure, and the step in which it fails leaves the cache as it was, so a key
\* without an entry has none afterwards; a call for that key that begins while
\* the key still has no entry invokes its producer.
C2_FailurePropagatesAndStoresNothing ==
    [][ /\ \A c \in 1..Len(cCalls) :
             (cCalls[c].pc = "pending" /\ cCalls'[c].pc # "pending"
                /\ cCalls[c].prod.kind # "resolve") =>
                 /\ cCalls'[c].pc = "rejected"
                 /\ cCalls'[c].out = cCalls[c].prod.val
                 /\ cache' = cache
        /\ \A d \in Begun :
             /\ (cCalls'[d].inv = 1 /\ cCalls'[d].prod.kind = "throw") =>
                    /\ cCalls'[d].pc = "thrown"
                    /\ cCalls'[d].out = cCalls'[d].prod.val
                    /\ cache' = cache
             /\ \A c \in 1..Len(cCalls) :
                    (/\ cCalls[c].pc \in {"rejected", "thrown"}
                     /\ cCalls[c].key = cCalls'[d].key
                     /\ cache[cCalls[c].key] = NoEntry) => cCalls'[d].inv = 1
      ]_vars

\* C2 happens: a call was rejected, its key has no entry, and the next call for
\* the key, begun after the rejection, invoked its producer
C2_Witness ==
    \E c, d \in 1..Len(cCalls) :
        /\ cCalls[c].pc = "rejected"
        /\ cCalls[c].out = cCalls[c].prod.val
        /\ cache[cCalls[c].key] = NoEntry
        /\ c \in cCalls[d].prior
        /\ cCalls[d].key = cCalls[c].key
        /\ cCalls[d].inv = 1

\* fetchFn invocations so far: the settled ones and the one in flight
RetryInvocations == Len(rAttempts) + rInFlight
RetrySettled == rPc \in {"resolved", "rejected"}
AllAttemptsFailed == \A j \in 1..Len(rAttempts) : ~rAttempts[j].ok

\* C3: with retries = n >= 1 and every attempt failing, fetchFn is invoked
\* exactly n times (never more on the way), and the call rejects with the failure
\* of the n-th invocation.
C3_ExhaustionRejectsWithLastFailure ==
    (rPc # "idle" /\ rRetries >= 1) =>
        /\ RetryInvocations <= rRetries
        /\ (RetrySettled /\ AllAttemptsFailed) =>
              /\ rPc = "rejected"
              /\ RetryInvocations = rRetries
              /\ Len(rAttempts) = rRetries
              /\ rOut = rAttempts[rRetries].val

\* C3 happens: three attempts failed, the first and the last differently
C3_Witness ==
    /\ rPc = "rejected"
    /\ rRetries = 3
    /\ Len(rAttempts) = 3
    /\ rAttempts[1].val # rAttempts[3].val
    /\ rOut = rAttempts[3].val

\* C4: a call that resolves did so on its k-th invocation (1 <= k <= n) after
\* k-1 failures, with the k-th value, after exactly k-1 delays of the configured
\* duration; a successful attempt is always the last one, with nothing in flight
\* and no timer armed after it.
C4_SuccessOnKthAttempt ==
    /\ rPc = "resolved" =>
          LET k == Len(rAttempts) IN
          /\ 1 <= k /\ k <= rRetries
          /\ \A j \in 1..(k - 1) : ~rAttempts[j].ok
          /\ rAttempts[k].ok
          /\ rOut = rAttempts[k].val
          /\ RetryInvocations = k
          /\ Len(rTimers) = k - 1
          /\ \A j \in 1..Len(rTimers) : rTimers[j] = rDelay
    /\ \A j \in 1..Len(rAttempts) :
          rAttempts[j].ok => (rPc = "resolved" /\ j = Len(rAttempts) /\ rInFlight = 0)
    /\ rPc = "await" => Len(rTimers) = Len(rAttempts)

\* C4 happens: success on the third of three attempts, after two delays
C4_Witness ==
    /\ rPc = "resolved"
    /\ rRetries = 3
    /\ Len(rAttempts) = 3
    /\ rAttempts[3].ok
    /\ Len(rTimers) = 2

\* C5: with retries <= 0, fetchFn is never invoked and the call rejects at once
\* with the reason "no attempts permitted".
C5_NoAttemptsPermitted ==
    (rPc # "idle" /\ rRetries <= 0) =>
        /\ RetryInvocations = 0
        /\ rPc = "rejected"
        /\ rOut = "no attempts permitted"

\* C6: the options passed to the transport have every name the caller or the
\* defaults have; a name the caller supplies carries the caller's value, any
\* other name the default's; the caller's headers object is taken as a whole, so
\* Content-Type is in the final headers only if the caller's headers hold it.
C6_ShallowMerge ==
    fPc # "idle" =>
        /\ fFinal.has = {"method", "headers"} \cup fOptions.has
        /\ fFinal.method = IF "method" \in fOptions.has THEN fOptions.method ELSE "GET"
        /\ fFinal.body = fOptions.body
        /\ fFinal.credentials = fOptions.credentials
        /\ "headers" \in fOptions.has => fFinal.headers = fOptions.headers
        /\ "headers" \notin fOptions.has =>
              /\ fFinal.headers["Content-Type"] = "application/json"
              /\ fFinal.headers["Authorization"] = Absent

\* C6 happens: a POST with an Authorization header only goes out without the
\* default Content-Type
C6_Witness ==
    /\ fPc # "idle"
    /\ fOptions.has = {"method", "headers"}
    /\ fOptions.headers["Authorization"] = "x"
    /\ fOptions.headers["Content-Type"] = Absent
    /\ fFinal.method = "POST"
    /\ fFinal.headers["Content-Type"] = Absent
    /\ fFinal.headers["Authorization"] = "x"

\* the message the claim gives for each status
StatusMessage ==
    [c \in Statuses |->
        CASE c = 200 -> "HTTP error! Status: 200"
          [] c = 404 -> "HTTP error! Status: 404"
          [] c = 500 -> "HTTP error! Status: 500"
          [] OTHER -> "?"]

\* C7: a response whose ok flag is false makes fetcho reject with the message
\* "HTTP error! Status: c" without reading the body; a response whose ok flag is
\* true has its body read, and fetcho resolves with the parsed body or rejects
\* with the parse failure.
C7_StatusAndParseFailures ==
    fResp.kind = "response" =>
        IF ~fResp.ok
        THEN /\ fPc = "rejected"
             /\ fOut = StatusMessage[fResp.status]
             /\ ~fJsonRead
        ELSE /\ fJsonRead
             /\ fPc \in {"awaitJson", "resolved", "rejected"}
             /\ fPc = "resolved" => (fResp.parses /\ fOut = fResp.json)
             /\ fPc = "rejected" => (~fResp.parses /\ fOut = ParseError)

\* C7 happens: a 404 was refused
C7_Witness ==
    /\ fResp.kind = "response"
    /\ ~fResp.ok
    /\ fResp.status = 404
    /\ fPc = "rejected"
    /\ fOut = "HTTP error! Status: 404"

\* the most recently issued call of the hook has settled
LastHookCallSettled == hCalls # <<>> /\ hCalls[Len(hCalls)].st # "pending"

\* C8: whenever the most recently issued call has settled: after a success data
\* is its result, loading is false and error is null; after a failure error is
\* its message, loading is false and data is null.
C8_SettledStateMatchesLastCall ==
    LastHookCallSettled =>
        LET last == hCalls[Len(hCalls)] IN
        IF last.st = "ok"
        THEN hData = last.val /\ hLoading = FALSE /\ hError = Null
        ELSE hError = last.val /\ hLoading = FALSE /\ hData = Null

\* C9: while any call issued by the hook has not settled, loading is true.
C9_LoadingWhilePending ==
    (\E c \in 1..Len(hCalls) : hCalls[c].st = "pending") => hLoading = TRUE

\* C10: once the component has detached, no step writes data, error or loading.
C10_NoWriteAfterDetach ==
    [][hPhase = "detached" => UNCHANGED <<hData, hError, hLoading>>]_vars

\* C11: a call that resolves with v while the hook is in its initial state
\* {loading: true, data: null, error: null} takes it to {loading: false, data: v,
\* error: null}; loading goes from false to true only in a step in which the
\* effect runs again, which it does only when url or options differ in identity.
C11_ResolveThenNoReload ==
    [][ /\ \A c \in 1..Len(hCalls) :
             (hCalls[c].st = "pending" /\ hCalls'[c].st = "ok"
                /\ HookState = InitialHookState) =>
                 HookState' = [data |-> hCalls'[c].val, error |-> Null, loading |-> FALSE]
        /\ (hLoading = FALSE /\ hLoading' = TRUE) =>
             /\ Len(hCalls') = Len(hCalls) + 1
             /\ hCalls'[Len(hCalls')].st = "pending"
      ]_vars

\* C11 happens: the one call resolved and the hook shows its value
C11_Witness ==
    /\ Len(hCalls) = 1
    /\ hCalls[1].st = "ok"
    /\ hData = hCalls[1].val
    /\ hError = Null
    /\ hLoading = FALSE
    /\ ~hFresh

\* C12: an entry of the cache, once written, never changes its value (a key has
\* one entry at most: the cache maps each key to one value).
C12_EntriesImmutable ==
    [][\A k \in Keys : cache[k] # NoEntry => cache'[k] = cache[k]]_vars

\* C13: a call that begins for a key without an entry while another call for
\* that key is still waiting for its producer invokes its own producer too.
C13_NoInFlightDeduplication ==
    [][\A d \in Begun :
          (/\ cache[cCalls'[d].key] = NoEntry
           /\ \E c \in 1..Len(cCalls) :
                /\ cCalls[c].key = cCalls'[d].key
                /\ cCalls[c].pc = "pending") =>
              /\ cCalls'[d].inv = 1
              /\ Cardinality({e \in 1..Len(cCalls') :
                     cCalls'[e].key = cCalls'[d].key /\ cCalls'[e].inv = 1}) > 1
      ]_vars

\* C13 happens: two overlapping calls for one key, both producers invoked
C13_Witness ==
    \E c, d \in 1..Len(cCalls) :
        /\ c < d
        /\ cCalls[c].key = cCalls[d].key
        /\ c \notin cCalls[d].prior
        /\ cCalls[c].inv = 1
        /\ cCalls[d].inv = 1

\* C14: at most one invocation of fetchFn is in flight; an invocation is made
\* only when every earlier one has failed and as many timers have been armed and
\* have fired as there were failures; no timer is armed after the failure of the
\* last permitted attempt.
C14_AttemptsSequentialOneDelayBetween ==
    /\ rInFlight \in {0, 1}
    /\ (rInFlight = 1) <=> (rPc = "await")
    /\ rPc = "await" => (AllAttemptsFailed /\ Len(rTimers) = Len(rAttempts))
    /\ rPc = "delay" => (AllAttemptsFailed /\ Len(rTimers) = Len(rAttempts)
                           /\ Len(rAttempts) < rRetries)
    /\ rPc = "rejected" =>
          Len(rTimers) = (IF rRetries >= 1 THEN rRetries - 1 ELSE 0)

\* C14 happens: the third attempt is in flight after two failures and two delays
C14_Witness ==
    /\ rPc = "await"
    /\ rInFlight = 1
    /\ Len(rAttempts) = 2
    /\ Len(rTimers) = 2

\* C15: every call the hook issued stays pending until it settles, whatever is
\* issued after it, and the step in which a call settles writes that call's
\* result to data or its message to error, and loading = false, whether or not
\* the call is the most recently issued one.
C15_LastSettlerWins ==
    [][ /\ Len(hCalls') >= Len(hCalls)
        /\ \A c \in 1..Len(hCalls) :
             /\ hCalls'[c].st = "pending" => hCalls[c].st = "pending"
             /\ hCalls[c].st # "pending" => hCalls'[c] = hCalls[c]
             /\ (hCalls[c].st = "pending" /\ hCalls'[c].st # "pending") =>
                  /\ hLoading' = FALSE
                  /\ hCalls'[c].st = "ok" => (hData' = hCalls'[c].val /\ hError' = hError)
                  /\ hCalls'[c].st = "fail" => (hError' = hCalls'[c].val /\ hData' = hData)
      ]_vars

\* C15 happens: the newer call has resolved, the older one resolved after it
\* with another value, and data holds the older call's value
C15_Witness ==
    /\ Len(hCalls) = 2
    /\ hCalls[1].st = "ok"
    /\ hCalls[2].st = "ok"
    /\ hCalls[1].val # hCalls[2].val
    /\ hData = hCalls[1].val

\* C16: a fetcho call that has failed has given exactly one error to the sink,
\* the one it rejects with; any other call has given it nothing.
C16_FailuresReportedOnce ==
    IF fPc = "rejected" THEN fSink = <<fOut>> ELSE fSink = <<>>

\* C16 happens: a parse failure was reported and re-raised
C16_Witness ==
    /\ fPc = "rejected"
    /\ fJsonRead
    /\ fOut = ParseError
    /\ fSink = <<ParseError>>

\* C17: the fetchFn invocations of a call never exceed max(retries, 0), and a
\* call that has begun eventually resolves or rejects.
C17_RetryTerminates ==
    /\ [](RetryInvocations <= (IF rRetries > 0 THEN rRetries ELSE 0))
    /\ (rPc # "idle") ~> RetrySettled

\* C17 happens: a call ran through all three attempts and settled
C17_Witness ==
    /\ RetrySettled
    /\ rRetries = 3
    /\ Len(rAttempts) = 3
    /\ rInFlight = 0

\* C18: a step of useCache changes no entry but that of the call's key: the
\* step in which a call begins (a hit, or a miss up to the invocation of the
\* producer) and the step in which a producer's failure arrives change nothing,
\* and the step in which a producer's value arrives changes only its key's entry.
C18_OnlyOwnKeyWritten ==
    [][ /\ Begun # {} => cache' = cache
        /\ \A c \in 1..Len(cCalls) :
             (cCalls[c].pc = "pending" /\ cCalls'[c].pc # "pending") =>
                 /\ \A j \in Keys \ {cCalls[c].key} : cache'[j] = cache[j]
                 /\ cCalls'[c].pc = "rejected" => cache' = cache
                 /\ cCalls'[c].pc = "resolved" => cache'[cCalls[c].key] = cCalls[c].prod.val
      ]_vars

\* C18 happens: a value was stored under k1 by a miss, a hit and a failing call
\* for other keys came after it, and the other keys have no entry
C18_Witness ==
    /\ Len(cCalls) = 3
    /\ cCalls[1].key = "k1" /\ cCalls[1].pc = "resolved" /\ cCalls[1].inv = 1
    /\ cCalls[2].key = "k1" /\ cCalls[2].inv = 0
    /\ cCalls[3].key = "k2" /\ cCalls[3].pc = "rejected"
    /\ cache["k1"] = cCalls[1].prod.val
    /\ cache["k2"] = NoEntry
    /\ cache["constructor"] = NoEntry

\* C19: a component that keeps rendering useFetch(url) without options, once
\* attached, eventually has loading = false for good, with no call pending and
\* no re-render due that would issue another.
C19_OmittedOptionsSettleForGood ==
    (hPhase = "mounted") ~>
        [](hLoading = FALSE /\ ~hDirty /\ \A c \in 1..Len(hCalls) : hCalls[c].st # "pending")

\* C20: whatever a useCache call for key k resolved with is a value that a
\* producer invoked by a useCache call for k resolves with.
C20_ResolvedValuesWereProduced ==
    \A d \in 1..Len(cCalls) :
        cCalls[d].pc = "resolved" =>
            \E c \in 1..Len(cCalls) :
                /\ cCalls[c].key = cCalls[d].key
                /\ cCalls[c].inv = 1
                /\ cCalls[c].prod.kind = "resolve"
                /\ cCalls[c].prod.val = cCalls[d].out

====
